---- MODULE Spec2Model ----
(***************************************************************************)
(* lssecrets: a single-threaded traversal service -> collections -> items  *)
(* over an external secret service (libsecret), printing a report.         *)
(* The secret service is the environment: what it answers to each call is  *)
(* drawn with \E where the call is made.  The program state is App's       *)
(* fields, the position of the traversal, the two output streams, and a    *)
(* record of what was asked of the service for the object being rendered.  *)
(***************************************************************************)
EXTENDS Integers, Sequences, FiniteSets, TLC

\* ---------------------------------------------------------------- bounds
\* at most this many collections are returned by the service
MaxCols == 2
\* at most this many items are returned for one collection
MaxItems == 2
\* longest binary secret payload, in bytes
MaxSecretLen == 2
MaxObjs == 2
MaxWrappers == 2
MaxRefs == 3

\* ------------------------------------------------------------ enum Detail
Service == 0
Collections == 1
Items == 2
Attributes == 3
Secrets == 4

\* the values --detail=N is run with
DetailRange == Service .. Secrets

\* ------------------------------------------------------------- characters
\* character codes the hex rendering deals in
Char0 == 48
Char_a == 97
Bytes == 0 .. 255

\* ----------------------------------------------------------------- errors
NoError == [domain |-> "none", code |-> "none"]

SecretErrorCodes ==
    {"PROTOCOL", "IS_LOCKED", "NO_SUCH_OBJECT", "ALREADY_EXISTS", "INVALID_FILE_FORMAT"}

\* the GError values a service call can hand back
GErrors ==
    [domain : {"SECRET_ERROR"}, code : SecretErrorCodes]
        \cup {[domain |-> "G_IO_ERROR", code |-> "FAILED"]}

\* the errors unlock and load calls are answered with during the traversal:
\* one of the secret-service domain, one of another domain
RunErrors ==
    { [domain |-> "SECRET_ERROR", code |-> "IS_LOCKED"],
      [domain |-> "G_IO_ERROR", code |-> "FAILED"] }

LockedError == [domain |-> "SECRET_ERROR", code |-> "IS_LOCKED"]

\* to_error: the classification message, then the underlying description
to_error(err) ==
    [ msg |->
        IF err.domain # "SECRET_ERROR"
        THEN "Couldn't get secret service."
        ELSE CASE err.code = "PROTOCOL" -> "Received invalid data from secret service."
               [] err.code = "IS_LOCKED" -> "Secret item or collection is locked."
               [] err.code = "NO_SUCH_OBJECT" -> "Secret item or collection not found."
               [] err.code = "ALREADY_EXISTS" -> "Secret item or collection already exists."
               [] OTHER -> "",
      what |-> err ]

\* ------------------------------------------------------------- hex output
\* operator<< of one unsigned char under setw(2), setfill('0'), setbase(16):
\* a char is inserted as a character, not as a number, so the base is not
\* applied; the field is padded on the left to width 2 with the fill.
PutByte(b) == <<Char0, b>>

RECURSIVE to_string(_)
\* to_string(const gchar* ptr, gsize len): the bytes, each through PutByte
to_string(bytes) ==
    IF bytes = <<>> THEN <<>>
    ELSE PutByte(Head(bytes)) \o to_string(Tail(bytes))

\* --------------------------------------------------------------- to_map
\* The keys of a std::map<std::string, ...> are strings, written as the
\* sequence of their character codes.
RECURSIVE StrLess(_, _)
\* std::less<std::string>: a < b, character by character, a prefix first
StrLess(a, b) ==
    IF b = <<>> THEN FALSE
    ELSE IF a = <<>> THEN TRUE
    ELSE IF Head(a) # Head(b) THEN Head(a) < Head(b)
    ELSE StrLess(Tail(a), Tail(b))

RECURSIVE MapPutUnordered(_, _)
\* a slip: the entries are kept in the order they were put
MapPutUnordered(m, kv) ==
    IF m = <<>> THEN <<kv>>
    ELSE IF kv.key = Head(m).key THEN <<kv>> \o Tail(m)
    ELSE <<Head(m)>> \o MapPutUnordered(Tail(m), kv)

RECURSIVE MapPut(_, _)
\* result[key_s] = val_s on a std::map kept as its entries in ascending key order
MapPut(m, kv) ==
    IF m = <<>> THEN <<kv>>
    ELSE IF StrLess(kv.key, Head(m).key) THEN <<kv>> \o m
    ELSE IF kv.key = Head(m).key THEN <<kv>> \o Tail(m)
    ELSE <<Head(m)>> \o MapPut(Tail(m), kv)

RECURSIVE MapFill(_, _)
MapFill(m, table) ==
    IF table = <<>> THEN m
    ELSE MapFill(MapPut(m, Head(table)), Tail(table))

\* to_map(GHashTable*): the table's entries, in the table's iteration order,
\* put one by one into an ordered map
to_map(table) == MapFill(<<>>, table)

\* the attribute tables an item can have, each in an iteration order of the
\* hash table
AttrTables ==
    { <<>>,
      <<[key |-> <<98>>, val |-> "me"]>>,
      <<[key |-> <<97, 112, 112>>, val |-> "demo"], [key |-> <<98>>, val |-> "me"]>>,
      <<[key |-> <<98>>, val |-> "me"], [key |-> <<97, 112, 112>>, val |-> "demo"]>> }

\* ---------------------------------------------------------------- state
VARIABLES
    detail,        \* App::detail
    unlock_flag,   \* App::unlock_flag
    version_flag,  \* App::version_flag
    service,       \* App::service: "unset", "null" (a wrapper of no object), "handle"
    flags,         \* the SecretServiceFlags of the secret_service_get_sync call
    pc,            \* where the run is
    ops,           \* the service operations called so far in the run
    cout,          \* standard output: the lines of the block being written
    flushed,       \* whether earlier blocks were written to standard output
    cerr,          \* standard error: its lines
    nCols,         \* size of the collections vector in print()
    ci,            \* position of the loop over collections
    nItems,        \* size of the items vector in print(col)
    ii,            \* position of the loop over items
    obj,           \* the collection or item being rendered: its state in the
                   \* service and what was asked of the service about it
    history,       \* what has happened to objects rendered so far in the run
    ptr,           \* to_string(ptr, len): the bytes given
    repr,          \* to_string(ptr, len): the string returned
    keyring_aliases, \* the service's alias bindings: alias name -> path, 0 for none
    aliases,       \* print(): std::map alias -> path
    reverse_aliases, \* print(): std::multimap path -> alias
    ref_count,     \* GObject::ref_count of each object, 0 once it is finalized
    held,          \* the references to each object held outside the wrappers
    wrappers,      \* the GObjectWrapper objects: alive or not, and their ptr
    misused        \* the objects referenced or released after finalization

vars ==
    <<detail, unlock_flag, version_flag, service, flags, pc, ops, cout, flushed,
      cerr, nCols, ci, nItems, ii, obj, history, ptr, repr,
      keyring_aliases, aliases, reverse_aliases,
      ref_count, held, wrappers, misused>>

wrapVars == <<ref_count, held, wrappers, misused>>

runVars ==
    <<detail, unlock_flag, version_flag, service, flags, pc, ops, cout, flushed,
      cerr, nCols, ci, nItems, ii, obj, history, ptr, repr,
      keyring_aliases, aliases, reverse_aliases>>

aliasVars == <<keyring_aliases, aliases, reverse_aliases>>

\* ---------------------------------------------------------------- aliases
\* the alias names, as their characters: "default", "login", "session"
Str_default == <<100, 101, 102, 97, 117, 108, 116>>
Str_login == <<108, 111, 103, 105, 110>>
Str_session == <<115, 101, 115, 115, 105, 111, 110>>

\* known_aliases, in the order of the vector
known_aliases == <<Str_default, Str_login, Str_session>>

AliasNames == {known_aliases[i] : i \in 1 .. Len(known_aliases)}

\* Collection k has the object path k; an alias is bound to the path of one
\* of the collections the service can list, or to none (0: the lookup gives NULL).
AllBindings == [AliasNames -> 0 .. MaxCols]

\* the bindings the traversal is run with: two aliases on the first collection
RunBindings ==
    { [a \in AliasNames |-> IF a \in {Str_default, Str_login} THEN 1 ELSE 0] }

\* reverse_aliases.emplace(path, alias) on a std::multimap: entries in
\* ascending key order, equal keys in the order they were put
RECURSIVE MultimapEmplace(_, _)
MultimapEmplace(m, kv) ==
    IF m = <<>> THEN <<kv>>
    ELSE IF kv.key < Head(m).key THEN <<kv>> \o m
    ELSE <<Head(m)>> \o MultimapEmplace(Tail(m), kv)

\* a slip: find() in place of equal_range(): the first entry of the key only
EqualRangeFirst(m, key) ==
    LET all == SelectSeq(m, LAMBDA e : e.key = key)
    IN IF all = <<>> THEN <<>> ELSE <<Head(all)>>

\* reverse_aliases.equal_range(path): the entries of that key, in order
EqualRange(m, key) == SelectSeq(m, LAMBDA e : e.key = key)

\* one output line: its indentation, what it shows, the value shown
Line(indent, key, val) == [indent |-> indent, key |-> key, val |-> val, data |-> <<>>]

\* a line that was begun and not ended: the exception left it there
Partial(indent, key) == [indent |-> indent, key |-> key, val |-> "<unfinished>", data |-> <<>>]

\* the `Value: { <repr> } (hex)` line
HexLine(indent, bytes) ==
    [indent |-> indent, key |-> "Value", val |-> "hex", data |-> to_string(bytes)]

Blank == Line(0, "", "")

\* cout << std::boolalpha << b
BoolAlpha(b) == IF b THEN "true" ELSE "false"

\* `Error: ` and e.what() of the std::runtime_error to_error makes
ErrorLine(indent, err) ==
    [indent |-> indent, key |-> "Error", val |-> to_error(err).msg, data |-> <<>>]

\* what() of the std::bad_optional_access that optional::value() throws
BadOptionalAccess == Line(0, "Error", "bad optional access")

\* ------------------------------------------------------- GObjectWrapper
Objs == 1 .. MaxObjs

\* a T*: an object, or 0 for nullptr
Pointers == 0 .. MaxObjs

Wrappers == 1 .. MaxWrappers

\* a GObjectWrapper that is not alive, and one that is; `moved` says it was
\* the source of a move and has not been assigned since
Dead == [live |-> FALSE, ptr |-> 0, moved |-> FALSE]

Alive(p) == [live |-> TRUE, ptr |-> p, moved |-> FALSE]

MovedFrom == [live |-> TRUE, ptr |-> 0, moved |-> TRUE]

\* no wrapper is alive; each object has the one reference its creator holds
NoWrappers ==
    /\ ref_count = [o \in Objs |-> 1]
    /\ held = [o \in Objs |-> 1]
    /\ wrappers = [i \in Wrappers |-> Dead]
    /\ misused = {}

\* g_object_ref(o) on the counts s: one more reference.  On a finalized
\* object the behaviour is undefined: the object is recorded as misused and
\* the count read afterwards is 0 or 1.
g_object_ref(s, o) ==
    IF s.rc[o] = 0
    THEN {[rc |-> [s.rc EXCEPT ![o] = n], mis |-> s.mis \cup {o}] : n \in {0, 1}}
    ELSE {[s EXCEPT !.rc[o] = @ + 1]}

\* g_object_unref(o): one reference fewer, the object is finalized at 0.  On
\* a finalized object the behaviour is undefined, as for g_object_ref.
g_object_unref(s, o) ==
    IF s.rc[o] = 0
    THEN {[rc |-> [s.rc EXCEPT ![o] = n], mis |-> s.mis \cup {o}] : n \in {0, 1}}
    ELSE {[s EXCEPT !.rc[o] = @ - 1]}

\* GObjectWrapper::ref(): `if (ptr) g_object_ref(ptr);`
ref(s, p) == IF p # 0 THEN g_object_ref(s, p) ELSE {s}

\* GObjectWrapper::unref(): `if (ptr) g_object_unref(ptr);`
unref(s, p) == IF p # 0 THEN g_object_unref(s, p) ELSE {s}

\* the counts now, and the counts as the next state
Counts == [rc |-> ref_count, mis |-> misused]

SetCounts(s) ==
    /\ ref_count' = s.rc
    /\ misused' = s.mis
    /\ \A o \in Objs : s.rc[o] <= MaxRefs

\* take(obj): GObjectWrapper{obj, false}; the caller hands its reference over
take ==
    \E i \in Wrappers, p \in Pointers :
        /\ ~wrappers[i].live
        /\ p # 0 => held[p] > 0
        /\ wrappers' = [wrappers EXCEPT ![i] = Alive(p)]
        /\ held' = IF p # 0 THEN [held EXCEPT ![p] = @ - 1] ELSE held
        /\ UNCHANGED <<ref_count, misused>>
        /\ UNCHANGED runVars

\* borrow(obj): GObjectWrapper{obj, true}; obj is an object some reference
\* keeps alive
borrow ==
    \E i \in Wrappers, p \in Pointers :
        /\ ~wrappers[i].live
        /\ p # 0 => ref_count[p] > 0
        /\ wrappers' = [wrappers EXCEPT ![i] = Alive(p)]
        /\ \E s \in ref(Counts, p) : SetCounts(s)
        /\ UNCHANGED held
        /\ UNCHANGED runVars

\* GObjectWrapper(const GObjectWrapper& other): ptr{other.ptr}, ref()
CopyConstruct ==
    \E i \in Wrappers, other \in Wrappers :
        /\ ~wrappers[i].live
        /\ wrappers[other].live
        /\ wrappers' = [wrappers EXCEPT ![i] = Alive(wrappers[other].ptr)]
        /\ \E s \in ref(Counts, wrappers[other].ptr) : SetCounts(s)
        /\ UNCHANGED held
        /\ UNCHANGED runVars

\* GObjectWrapper(GObjectWrapper&& other): ptr{other.ptr}, other.ptr = nullptr
MoveConstruct ==
    \E i \in Wrappers, other \in Wrappers :
        /\ ~wrappers[i].live
        /\ wrappers[other].live
        /\ wrappers' = [wrappers EXCEPT ![i] = Alive(wrappers[other].ptr),
                                         ![other] = MovedFrom]
        /\ UNCHANGED <<ref_count, held, misused>>
        /\ UNCHANGED runVars

\* operator =(const GObjectWrapper& other): unref(); ptr = other.ptr; ref();
\* other may be *this
CopyAssign ==
    \E i \in Wrappers, other \in Wrappers :
        /\ wrappers[i].live
        /\ wrappers[other].live
        /\ wrappers' = [wrappers EXCEPT ![i] = Alive(wrappers[other].ptr)]
        /\ \E s1 \in unref(Counts, wrappers[i].ptr) :
           \E s2 \in ref(s1, wrappers[other].ptr) : SetCounts(s2)
        /\ UNCHANGED held
        /\ UNCHANGED runVars

\* operator =(GObjectWrapper&& other): unref(); ptr = other.ptr;
\* other.ptr = nullptr; other may be *this
MoveAssign ==
    \E i \in Wrappers, other \in Wrappers :
        /\ wrappers[i].live
        /\ wrappers[other].live
        /\ wrappers' = [wrappers EXCEPT ![i] = Alive(wrappers[other].ptr),
                                         ![other] = MovedFrom]
        /\ \E s \in unref(Counts, wrappers[i].ptr) : SetCounts(s)
        /\ UNCHANGED held
        /\ UNCHANGED runVars

\* ~GObjectWrapper(): unref()
Destroy ==
    \E i \in Wrappers :
        /\ wrappers[i].live
        /\ wrappers' = [wrappers EXCEPT ![i] = Dead]
        /\ \E s \in unref(Counts, wrappers[i].ptr) : SetCounts(s)
        /\ UNCHANGED held
        /\ UNCHANGED runVars

\* a holder outside the wrappers takes one more reference on its object
HolderRef ==
    \E o \in Objs :
        /\ held[o] > 0
        /\ held' = [held EXCEPT ![o] = @ + 1]
        /\ \E s \in g_object_ref(Counts, o) : SetCounts(s)
        /\ UNCHANGED wrappers
        /\ UNCHANGED runVars

\* a holder outside the wrappers releases one of its references
HolderUnref ==
    \E o \in Objs :
        /\ held[o] > 0
        /\ held' = [held EXCEPT ![o] = @ - 1]
        /\ \E s \in g_object_unref(Counts, o) : SetCounts(s)
        /\ UNCHANGED wrappers
        /\ UNCHANGED runVars

NoObj ==
    [ kind |-> "none", id |-> <<0, 0>>, hasLabel |-> TRUE, wasLocked |-> FALSE, locked |-> FALSE,
      lockRead |-> "none", unlockReqs |-> 0, unlockLists |-> <<>>, unlockErr |-> NoError,
      shown |-> "none", attrReqs |-> 0, attrs |-> {}, loadReqs |-> 0, loadErr |-> NoError,
      returned |-> FALSE ]

Init ==
    /\ detail \in DetailRange
    /\ unlock_flag \in BOOLEAN
    /\ version_flag \in BOOLEAN
    /\ service = "unset"
    /\ flags = {}
    /\ pc = "activate"
    /\ ops = {}
    /\ cout = <<>>
    /\ flushed = FALSE
    /\ cerr = <<>>
    /\ nCols = 0
    /\ ci = 0
    /\ nItems = 0
    /\ ii = 0
    /\ obj = NoObj
    /\ history = {}
    /\ ptr = <<>>
    /\ repr = <<>>
    /\ keyring_aliases \in RunBindings
    /\ aliases = <<>>
    /\ reverse_aliases = <<>>
    /\ NoWrappers

\* ------------------------------------------------------------ on_activate
\* on_activate with --version: the package string, and nothing else
Version ==
    /\ pc = "activate"
    /\ version_flag
    /\ cout' = <<Line(0, "PACKAGE_STRING", "lssecrets 1.1")>>
    /\ pc' = "done"
    /\ UNCHANGED <<detail, unlock_flag, version_flag, service, flags, ops, flushed,
                   cerr, nCols, ci, nItems, ii, obj, history, ptr, repr>>
    /\ UNCHANGED aliasVars
    /\ UNCHANGED wrapVars

\* a slip: --version does not keep on_activate from print()
RunsPrintAlways == TRUE

\* on_activate goes on to print() unless --version was given
RunsPrint == ~version_flag

\* a slip: the session is opened for --unlock too
ConnectFlagsForUnlock ==
    {"SECRET_SERVICE_LOAD_COLLECTIONS"}
        \cup (IF detail >= Secrets \/ unlock_flag THEN {"SECRET_SERVICE_OPEN_SESSION"} ELSE {})

\* the flags print() passes to secret_service_get_sync
ConnectFlags ==
    {"SECRET_SERVICE_LOAD_COLLECTIONS"}
        \cup (IF detail >= Secrets THEN {"SECRET_SERVICE_OPEN_SESSION"} ELSE {})

\* a slip: the header is written before service_error is tested
HeaderBeforeErrorCheck == <<Line(0, "Service", "")>>

\* what print() writes before it tests service_error: nothing
BeforeErrorCheck == <<>>

\* print() when secret_service_get_sync fails: it returns no object and sets
\* the error; throw_error throws, on_activate catches, reports and quits
ConnectFails ==
    /\ pc = "activate"
    /\ RunsPrint
    /\ \E err \in GErrors :
          /\ flags' = ConnectFlags
          /\ ops' = ops \cup {"get_sync"}
          /\ service' = "null"
          /\ cout' = BeforeErrorCheck
          /\ cerr' = cerr \o <<ErrorLine(0, err)>>
          /\ pc' = "fatal"
    /\ UNCHANGED <<detail, unlock_flag, version_flag, flushed, nCols, ci, nItems,
                   ii, obj, history, ptr, repr>>
    /\ UNCHANGED aliasVars
    /\ UNCHANGED wrapVars

\* the loop over known_aliases in print(): each alias is looked up, and one
\* that has a path is put into both maps
RECURSIVE ReadAliases(_, _)
ReadAliases(i, maps) ==
    IF i > Len(known_aliases) THEN maps
    ELSE LET alias == known_aliases[i]
             path == keyring_aliases[alias]
         IN IF path # 0
            THEN ReadAliases(i + 1,
                    [fwd |-> MapPut(maps.fwd, [key |-> alias, val |-> path]),
                     rev |-> MultimapEmplace(maps.rev, [key |-> path, val |-> alias])])
            ELSE ReadAliases(i + 1, maps)

\* `    <alias>: <path>` in the service block; data is the path, then the name
RECURSIVE AliasEntries(_)
AliasEntries(m) ==
    IF m = <<>> THEN <<>>
    ELSE <<[indent |-> 4, key |-> "AliasEntry", val |-> "",
            data |-> <<Head(m).val>> \o Head(m).key]>> \o AliasEntries(Tail(m))

\* the Aliases: part of the service block, of a map that is not empty
ServiceAliasLines(m) ==
    IF m = <<>> THEN <<>> ELSE <<Line(2, "Aliases", "")>> \o AliasEntries(m)

\* the `  Alias: <alias>` lines of a collection block; data is the name
RECURSIVE CollectionAliasLines(_, _)
CollectionAliasLines(indent, range) ==
    IF range = <<>> THEN <<>>
    ELSE <<[indent |-> indent + 2, key |-> "Alias", val |-> "", data |-> Head(range).val]>>
            \o CollectionAliasLines(indent, Tail(range))

\* print() when the service answers: the service block with the aliases that
\* have a path, then the collections are listed unless the detail stops at
\* the service
PrintService ==
    /\ pc = "activate"
    /\ RunsPrint
    /\ flags' = ConnectFlags
    /\ service' = "handle"
    /\ aliases' = ReadAliases(1, [fwd |-> <<>>, rev |-> <<>>]).fwd
    /\ reverse_aliases' = ReadAliases(1, [fwd |-> <<>>, rev |-> <<>>]).rev
    /\ keyring_aliases' = keyring_aliases
    /\ cout' = BeforeErrorCheck
                 \o <<Line(0, "Service", ""), Line(2, "Path", "/org/freedesktop/secrets")>>
                 \o ServiceAliasLines(ReadAliases(1, [fwd |-> <<>>, rev |-> <<>>]).fwd)
                 \o <<Blank>>
    /\ IF detail < Collections
       THEN /\ ops' = ops \cup {"get_sync", "read_alias"}
            /\ nCols' = nCols
            /\ ci' = ci
            /\ pc' = "done"
       ELSE \E n \in 0 .. MaxCols :
            /\ ops' = ops \cup {"get_sync", "read_alias", "get_collections"}
            /\ nCols' = n
            /\ ci' = IF n = 0 THEN 0 ELSE 1
            /\ pc' = IF n = 0 THEN "done" ELSE "collection"
    /\ UNCHANGED <<detail, unlock_flag, version_flag, flushed, cerr, nItems, ii,
                   obj, history, ptr, repr>>
    /\ UNCHANGED wrapVars

\* ------------------------------------------------------- shared by prints
\* secret_service_unlock_sync on one object: the error it sets, and whether
\* the object is locked once the call has returned.  No error does not mean
\* unlocked: a dismissed prompt unlocks nothing and sets no error.
UnlockOutcomes ==
    { [err |-> NoError, locked |-> FALSE], [err |-> NoError, locked |-> TRUE] }
        \cup { [err |-> e, locked |-> TRUE] : e \in RunErrors }

\* no unlock call was made: no error, the lock state stays what it was
NoUnlock(locked) == [err |-> NoError, locked |-> locked]

\* `unlock_flag && secret_..._get_locked(obj)`: the test in front of unlock()
WantsUnlock(locked) == unlock_flag /\ locked

\* what the first operand of that test reads of the lock state
LockRead(locked) == IF unlock_flag THEN BoolAlpha(locked) ELSE "none"

\* a slip: the value read in front of unlock() is printed
DisplayedLockedStale(before, after, err) == before

\* the value `Locked:` is printed with: secret_..._get_locked(obj) is called
\* again, after unlock() has returned
DisplayedLocked(before, after, err) == after

\* a slip: the collection of the object is put on the list as well
unlock_list_batch(target) == <<target, <<target[1], 0>>>>

\* unlock(obj): `g_list_append(nullptr, obj.get())`, the list given to
\* secret_service_unlock_sync
unlock_list(target) == <<target>>

\* the lists of the unlock calls made on `target` in front of its Locked: line
UnlockCalls(target, locked) ==
    IF WantsUnlock(locked) THEN <<unlock_list(target)>> ELSE <<>>

\* the optional Created: and Modified: lines
Stamps(indent, created, modified) ==
    (IF created THEN <<Line(indent + 2, "Created", "%F %T")>> ELSE <<>>)
        \o (IF modified THEN <<Line(indent + 2, "Modified", "%F %T")>> ELSE <<>>)

\* what the rendering of object o adds to the history of the run
Events(o) ==
    (IF o.unlockErr # NoError THEN {<<o.kind, "unlock failed">>} ELSE {})
        \cup (IF o.kind = "collection" /\ o.wasLocked /\ o.unlockReqs = 0
              THEN {<<o.kind, "left locked">>} ELSE {})

\* the catch of on_activate: the exception's what() on standard error, quit()
Caught(what) ==
    /\ cerr' = cerr \o <<what>>
    /\ pc' = "fatal"

\* the loop over collections in print(): the blank line after a collection,
\* then the next collection, or the end of print()
NextCollection ==
    /\ ci' = IF ci < nCols THEN ci + 1 ELSE ci
    /\ pc' = IF ci < nCols THEN "collection" ELSE "done"

\* ------------------------------------------------------ print(collection)
CollectionIndent == 4

\* print(col, ...) stops before the items when the detail is below Items
ListsItems == ~(detail < Items)

\* print(col, reverse_aliases, indent) up to the loop over the items
PrintCollection ==
    /\ pc = "collection"
    /\ flushed' = (flushed \/ cout # <<>>)
    /\ \E hasLabel \in BOOLEAN, created \in BOOLEAN, modified \in BOOLEAN, locked \in BOOLEAN :
        LET indent == CollectionIndent
            o == [NoObj EXCEPT !.kind = "collection", !.id = <<ci, 0>>, !.hasLabel = hasLabel,
                               !.wasLocked = locked, !.locked = locked]
        IN
        IF ~hasLabel
        THEN \* label.value() throws std::bad_optional_access
             /\ cout' = <<Partial(indent, "Collection")>>
             /\ obj' = o
             /\ Caught(BadOptionalAccess)
             /\ UNCHANGED <<ops, nItems, ii, ci, history>>
        ELSE
          \E out \in (IF WantsUnlock(locked) THEN UnlockOutcomes ELSE {NoUnlock(locked)}) :
            LET shown == BoolAlpha(DisplayedLocked(locked, out.locked, out.err))
                lines ==
                    <<Line(indent, "Collection", "label"), Line(indent + 2, "Path", "path")>>
                        \o CollectionAliasLines(indent, EqualRange(reverse_aliases, ci))
                        \o Stamps(indent, created, modified)
                        \o (IF out.err # NoError THEN <<ErrorLine(indent + 2, out.err)>> ELSE <<>>)
                        \o <<Line(indent + 2, "Locked", shown), Blank>>
                unlockOps == IF WantsUnlock(locked) THEN {"unlock"} ELSE {}
                o1 == [o EXCEPT !.locked = out.locked,
                                !.lockRead = LockRead(locked),
                                !.unlockReqs = Len(UnlockCalls(o.id, locked)),
                                !.unlockLists = UnlockCalls(o.id, locked),
                                !.unlockErr = out.err,
                                !.shown = shown,
                                !.returned = TRUE]
            IN
            /\ obj' = o1
            /\ history' = history \cup Events(o1)
            /\ cerr' = cerr
            /\ IF ListsItems
               THEN \E n \in 0 .. MaxItems :
                      /\ ops' = ops \cup unlockOps \cup {"get_items"}
                      /\ nItems' = n
                      /\ IF n = 0
                         THEN /\ cout' = lines \o <<Blank>>
                              /\ ii' = 0
                              /\ NextCollection
                         ELSE /\ cout' = lines
                              /\ ii' = 1
                              /\ ci' = ci
                              /\ pc' = "item"
               ELSE /\ ops' = ops \cup unlockOps
                    /\ cout' = lines \o <<Blank>>
                    /\ nItems' = 0
                    /\ ii' = 0
                    /\ NextCollection
    /\ UNCHANGED <<detail, unlock_flag, version_flag, service, flags, nCols, ptr, repr>>
    /\ UNCHANGED aliasVars
    /\ UNCHANGED wrapVars

\* ------------------------------------------------------------ print(item)
\* print(item, indent) stops before the attributes when the detail is below
\* Attributes, and before the secret when it is below Secrets
\* a slip: the attributes are fetched one level early
FetchesAttributesEarly == ~(detail < Items)

FetchesAttributes == ~(detail < Attributes)

\* a slip: the secret is loaded one level early
LoadsSecretEarly == ~(detail < Attributes)

LoadsSecret == ~(detail < Secrets)

\* secret_item_load_secret_sync: the error it sets; a locked item is refused
LoadOutcomes(locked) ==
    IF locked THEN {LockedError} ELSE {NoError} \cup RunErrors

\* secret_item_get_secret after a load: no value, a text value, or a value
\* secret_value_get_text gives no text for
SecretValues ==
    { [kind |-> "null", bytes |-> <<>>],
      [kind |-> "text", bytes |-> <<>>],
      [kind |-> "binary", bytes |-> <<>>],
      [kind |-> "binary", bytes |-> <<222, 173>>] }

\* the lines print(item) writes for the secret it got
SecretLines(indent, val) ==
    IF val.kind = "null"
    THEN <<Line(indent + 2, "Error", "secret is null")>>
    ELSE <<Line(indent + 2, "Secret", ""), Line(indent + 4, "Type", "content-type")>>
            \o (IF val.kind = "text"
                THEN <<Line(indent + 4, "Value", "text")>>
                ELSE <<HexLine(indent + 4, val.bytes)>>)

\* the Attributes: block of a non-empty map, in the map's order
RECURSIVE AttributeEntries(_, _)
AttributeEntries(indent, m) ==
    IF m = <<>> THEN <<>>
    ELSE <<[indent |-> indent + 6, key |-> "Attribute", val |-> Head(m).val,
            data |-> Head(m).key]>>
            \o AttributeEntries(indent, Tail(m))

AttributeLines(indent, m) ==
    IF m = <<>> THEN <<>>
    ELSE <<Line(indent + 2, "Attributes", "")>> \o AttributeEntries(indent, m)

\* print(item) has returned to the loop over the items in print(col): the
\* blank line, then the next item, or print(col) returns to print()
ItemReturns(lines, o) ==
    /\ obj' = [o EXCEPT !.returned = TRUE]
    /\ history' = history \cup Events(o)
    /\ cerr' = cerr
    /\ IF ii < nItems
       THEN /\ cout' = lines \o <<Blank>>
            /\ ii' = ii + 1
            /\ ci' = ci
            /\ pc' = "item"
       ELSE /\ cout' = lines \o <<Blank, Blank>>
            /\ ii' = ii
            /\ NextCollection

\* a slip: the items at the indentation of their collection
ItemIndentSame(indent) == indent

\* `print(item, indent + "    ")` in the loop over the items of print(col)
ItemIndent(indent) == indent + 4

\* print(item, indent), the whole of it
PrintItem ==
    /\ pc = "item"
    /\ flushed' = (flushed \/ cout # <<>>)
    /\ \E hasLabel \in BOOLEAN, created \in BOOLEAN, modified \in BOOLEAN, locked \in BOOLEAN :
        LET indent == ItemIndent(CollectionIndent)
            o == [NoObj EXCEPT !.kind = "item", !.id = <<ci, ii>>, !.hasLabel = hasLabel,
                               !.wasLocked = locked, !.locked = locked]
            head == <<Line(indent, "Item", "label"), Line(indent + 2, "Path", "path")>>
                        \o Stamps(indent, created, modified)
        IN
        IF ~hasLabel
        THEN \* label.value() throws std::bad_optional_access
             /\ cout' = <<Partial(indent, "Item")>>
             /\ obj' = o
             /\ Caught(BadOptionalAccess)
             /\ UNCHANGED <<ops, ii, ci, history>>
        ELSE IF ~FetchesAttributes
        THEN /\ ops' = ops
             /\ ItemReturns(head, o)
        ELSE
          \E table \in AttrTables :
          \E out \in (IF WantsUnlock(locked) THEN UnlockOutcomes ELSE {NoUnlock(locked)}) :
            LET shown == BoolAlpha(DisplayedLocked(locked, out.locked, out.err))
                unlockOps == IF WantsUnlock(locked) THEN {"unlock"} ELSE {}
                o1 == [o EXCEPT !.attrReqs = 1,
                                !.attrs = {table[i] : i \in 1 .. Len(table)},
                                !.locked = out.locked,
                                !.lockRead = LockRead(locked),
                                !.unlockReqs = Len(UnlockCalls(o.id, locked)),
                                !.unlockLists = UnlockCalls(o.id, locked),
                                !.unlockErr = out.err,
                                !.shown = shown]
                upto == head \o AttributeLines(indent, to_map(table))
                             \o <<Line(indent + 2, "Locked", shown)>>
            IN
            IF out.err # NoError
            THEN /\ ops' = ops \cup {"get_attributes"} \cup unlockOps
                 /\ ItemReturns(upto \o <<ErrorLine(indent + 2, out.err)>>, o1)
            ELSE IF ~LoadsSecret
            THEN /\ ops' = ops \cup {"get_attributes"} \cup unlockOps
                 /\ ItemReturns(upto, o1)
            ELSE
              \E lerr \in LoadOutcomes(out.locked) :
                LET o2 == [o1 EXCEPT !.loadReqs = 1, !.loadErr = lerr] IN
                /\ ops' = ops \cup {"get_attributes", "load_secret"} \cup unlockOps
                /\ IF lerr # NoError
                   THEN ItemReturns(upto \o <<ErrorLine(indent + 2, lerr)>>, o2)
                   ELSE \E val \in SecretValues :
                          ItemReturns(upto \o SecretLines(indent, val), o2)
    /\ UNCHANGED <<detail, unlock_flag, version_flag, service, flags, nCols, nItems,
                   ptr, repr>>
    /\ UNCHANGED aliasVars
    /\ UNCHANGED wrapVars

\* ------------------------------------------------- to_string(ptr, len) alone
\* the byte strings of up to MaxSecretLen bytes, one byte longer at a step,
\* each given to to_string
InitHex ==
    /\ Init
    /\ detail = Secrets
    /\ ~unlock_flag
    /\ ~version_flag

CallToString ==
    /\ Len(ptr) < MaxSecretLen
    /\ \E b \in Bytes :
          /\ ptr' = Append(ptr, b)
          /\ repr' = to_string(Append(ptr, b))
    /\ UNCHANGED <<detail, unlock_flag, version_flag, service, flags, pc, ops, cout,
                   flushed, cerr, nCols, ci, nItems, ii, obj, history>>
    /\ UNCHANGED aliasVars
    /\ UNCHANGED wrapVars

SpecHex == InitHex /\ [][CallToString]_vars

\* ------------------------------------------------- the aliases, all of them
\* the run at the service and collection levels, against every binding of
\* the three known aliases
InitAlias ==
    /\ detail \in {Service, Collections}
    /\ unlock_flag \in BOOLEAN
    /\ version_flag = FALSE
    /\ keyring_aliases \in AllBindings
    /\ service = "unset"
    /\ flags = {}
    /\ pc = "activate"
    /\ ops = {}
    /\ cout = <<>>
    /\ flushed = FALSE
    /\ cerr = <<>>
    /\ nCols = 0
    /\ ci = 0
    /\ nItems = 0
    /\ ii = 0
    /\ obj = NoObj
    /\ history = {}
    /\ ptr = <<>>
    /\ repr = <<>>
    /\ aliases = <<>>
    /\ reverse_aliases = <<>>
    /\ NoWrappers

NextAlias ==
    \/ ConnectFails
    \/ PrintService
    \/ PrintCollection

SpecAlias == InitAlias /\ [][NextAlias]_vars

\* ------------------------------------------------- GObjectWrapper alone
\* any sequence of the operations of GObjectWrapper on MaxWrappers wrappers
\* and MaxObjs objects
InitWrapper ==
    /\ Init
    /\ detail = Items
    /\ ~unlock_flag
    /\ ~version_flag

NextWrapper ==
    \/ take
    \/ borrow
    \/ CopyConstruct
    \/ MoveConstruct
    \/ CopyAssign
    \/ MoveAssign
    \/ Destroy
    \/ HolderRef
    \/ HolderUnref

SpecWrapper == InitWrapper /\ [][NextWrapper]_vars

Next ==
    \/ Version
    \/ ConnectFails
    \/ PrintService
    \/ PrintCollection
    \/ PrintItem

Spec == Init /\ [][Next]_vars

\* ==================================================================== C1
\* C1: every collection and item the traversal has rendered got an unlock
\* request if and only if --unlock is set and the object was locked.
C1_UnlockIffFlagAndLocked ==
    (obj.kind \in {"collection", "item"} /\ obj.returned)
        => (obj.unlockReqs = 1 <=> (unlock_flag /\ obj.wasLocked))

\* ==================================================================== C2
\* C2: below detail 4 no secret load is ever called, whatever --unlock and the
\* lock states are.
C2_NoSecretLoadBelowSecrets ==
    detail < Secrets => ("load_secret" \notin ops /\ obj.loadReqs = 0)

\* an item that was locked, was unlocked by --unlock, and was rendered at detail 3
C2_Witness ==
    /\ detail = Attributes
    /\ unlock_flag
    /\ obj.kind = "item"
    /\ obj.returned
    /\ obj.unlockReqs = 1
    /\ ~obj.locked

\* ==================================================================== C3
\* C3: below detail 1 the collections are never listed, below 2 no item list
\* is requested, below 3 no attribute map is fetched; the run with no
\* arguments (detail 2, no --unlock) lists the collections and the items of
\* each collection it renders, ends with every listed collection and item
\* rendered, and calls neither the attribute fetch, nor the secret load, nor
\* unlock.
C3_DetailGating ==
    /\ detail < Collections => "get_collections" \notin ops
    /\ detail < Items => "get_items" \notin ops
    /\ detail < Attributes => ("get_attributes" \notin ops /\ obj.attrReqs = 0)
    /\ (detail = Items /\ ~unlock_flag /\ ~version_flag) =>
          /\ ops \cap {"get_attributes", "load_secret", "unlock"} = {}
          /\ service = "handle" => "get_collections" \in ops
          /\ (obj.kind = "collection" /\ obj.returned) => "get_items" \in ops
          /\ (obj.kind = "item" /\ obj.returned) =>
                (cout[1].key = "Item" /\ \A i \in 1 .. Len(cout) :
                    cout[i].key \notin {"Attributes", "Attribute", "Locked", "Secret", "Value"})
          /\ pc = "done" => (service = "handle" /\ ci = nCols /\ (nCols > 0 => ii = nItems))

\* the run with no arguments has rendered the last item of the last collection
C3_Witness ==
    /\ detail = Items
    /\ ~unlock_flag
    /\ ~version_flag
    /\ pc = "done"
    /\ obj.kind = "item"
    /\ obj.wasLocked
    /\ ci = MaxCols
    /\ ii = MaxItems

\* ==================================================================== C4
HexDigit(n) == IF n < 10 THEN Char0 + n ELSE Char_a + (n - 10)

RECURSIVE HexOf(_)
\* two lowercase hexadecimal digits per byte, in byte order, no separators
HexOf(bytes) ==
    IF bytes = <<>> THEN <<>>
    ELSE <<HexDigit(Head(bytes) \div 16), HexDigit(Head(bytes) % 16)>> \o HexOf(Tail(bytes))

\* C4: for every byte string, to_string(ptr, len) is two lowercase hexadecimal
\* digits per byte, in byte order, with no separators.
C4_HexTwoDigitsPerByte == repr = HexOf(ptr)

\* ==================================================================== C5
\* C5: once the service handle has been obtained the run never takes the
\* fatal path: nothing that arises on one collection or item aborts the run.
C5_OnlyConnectFailureIsFatal == pc = "fatal" => service # "handle"

C7_LockedShownIsFresh ==
    /\ obj.shown # "none" => obj.shown = BoolAlpha(obj.locked)
    /\ (obj.kind = "collection" /\ obj.returned) => obj.shown # "none"

\* an unlock that reported no error and left the object locked
C7_Witness ==
    /\ obj.kind = "item"
    /\ obj.unlockReqs = 1
    /\ obj.unlockErr = NoError
    /\ obj.locked
    /\ obj.shown = "true"

\* ==================================================================== C8
\* C8: without --unlock a locked collection shows `Locked: true`; a failed
\* secret load is an inline Error: line in the item's block, with the 'locked'
\* message for a locked error; and after a locked collection was rendered the
\* run goes on and ends normally, never on the fatal path.
C8_LockedCollectionWithoutUnlock ==
    /\ (~unlock_flag /\ obj.kind = "collection" /\ obj.returned /\ obj.wasLocked)
          => obj.shown = "true"
    /\ (obj.kind = "item" /\ obj.loadErr # NoError) =>
          \E i \in 1 .. Len(cout) :
              /\ cout[i].key = "Error"
              /\ cout[i].val = to_error(obj.loadErr).msg
              /\ obj.loadErr = LockedError => cout[i].val = "Secret item or collection is locked."
    /\ (~unlock_flag /\ <<"collection", "left locked">> \in history) => pc # "fatal"

\* ==================================================================== C9
\* C9: when obtaining the service handle fails, no service object is held,
\* standard error has one `Error: ` line, standard output has nothing, the
\* only service operation called is the connection request, and the run has
\* no further step.
C9_ConnectFailure ==
    (pc = "fatal" /\ service # "handle") =>
        /\ service = "null"
        /\ cout = <<>>
        /\ ~flushed
        /\ Len(cerr) = 1
        /\ cerr[1].key = "Error"
        /\ ops = {"get_sync"}
        /\ ~ENABLED Next

C9_Witness == pc = "fatal" /\ service = "null" /\ unlock_flag /\ detail = Secrets

\* =================================================================== C10
\* C10: the connection request asks for collection loading, and for a session
\* if and only if the detail is 4 or more; the flags are set by the one
\* connection request and never change afterwards; --unlock does not enter.
C10_ConnectFlags ==
    /\ [](service # "unset" =>
            /\ "SECRET_SERVICE_LOAD_COLLECTIONS" \in flags
            /\ "SECRET_SERVICE_OPEN_SESSION" \in flags <=> detail >= Secrets)
    /\ [][service # "unset" => (flags' = flags /\ "get_sync" \in ops /\ ops \subseteq ops')]_vars

\* --unlock below detail 4: connected, and no session asked for
C10_Witness ==
    /\ service = "handle"
    /\ unlock_flag
    /\ detail < Secrets
    /\ "unlock" \in ops
    /\ "SECRET_SERVICE_OPEN_SESSION" \notin flags

\* =================================================================== C11
\* C11: with --version the run prints the name/version string and calls no
\* service operation at all, whatever --detail and --unlock are.
C11_VersionOnly ==
    version_flag =>
        /\ pc \in {"activate", "done"}
        /\ ops = {}
        /\ service = "unset"
        /\ flags = {}
        /\ cerr = <<>>
        /\ pc = "done" => (cout = <<Line(0, "PACKAGE_STRING", "lssecrets 1.1")>> /\ ~flushed)

\* --version given together with --unlock and --detail=4, and the run is over
C11_Witness ==
    /\ version_flag
    /\ unlock_flag
    /\ detail = Secrets
    /\ pc = "done"
    /\ Len(cout) = 1

\* =================================================================== C12
\* the aliases the service has bound to a path
BoundAliases == {a \in AliasNames : keyring_aliases[a] # 0}

\* the lines of the block in cout that show `key`
LinesOf(key) == {i \in 1 .. Len(cout) : cout[i].key = key}

\* C12: for every binding of the three known aliases, an alias without a path
\* gives no line and no error; the service block lists the bound aliases, each
\* once and with its path, under `Aliases:` when there is one; a rendered
\* collection shows one `Alias:` line for each alias whose path is the
\* collection's path, and for no other alias.
C12_AliasLines ==
    /\ cerr = <<>> =>
          \A i \in 1 .. Len(cout) : cout[i].key = "Error" => obj.unlockErr # NoError
    /\ (cout # <<>> /\ cout[1].key = "Service") =>
          /\ Cardinality(LinesOf("AliasEntry")) = Cardinality(BoundAliases)
          /\ {<<Tail(cout[i].data), Head(cout[i].data)>> : i \in LinesOf("AliasEntry")}
                = {<<a, keyring_aliases[a]>> : a \in BoundAliases}
          /\ LinesOf("Aliases") # {} <=> BoundAliases # {}
    /\ (obj.kind = "collection" /\ obj.returned) =>
          /\ cout[1].key = "Collection"
          /\ Cardinality(LinesOf("Alias"))
                = Cardinality({a \in AliasNames : keyring_aliases[a] = obj.id[1]})
          /\ {cout[i].data : i \in LinesOf("Alias")}
                = {a \in AliasNames : keyring_aliases[a] = obj.id[1]}

\* two aliases on the second collection, the third without a path, and the
\* second collection is rendered
C12_Witness ==
    /\ keyring_aliases[Str_default] = 2
    /\ keyring_aliases[Str_session] = 2
    /\ keyring_aliases[Str_login] = 0
    /\ obj.kind = "collection"
    /\ obj.id = <<2, 0>>
    /\ obj.returned
    /\ Cardinality(LinesOf("Alias")) = 2

\* =================================================================== C13
\* the entries of a table, whatever the order the table gives them in
EntriesOf(table) == {table[i] : i \in 1 .. Len(table)}

\* C13: the attribute lines of an item are a function of the item's attribute
\* entries alone: one line per key, showing the entry, in ascending key
\* order, so that two runs over tables of the same entries in different
\* iteration orders write the same lines; and without --unlock the run calls
\* nothing that changes the keyring.
C13_AttributesDeterministic ==
    /\ \A t1 \in AttrTables, t2 \in AttrTables :
          EntriesOf(t1) = EntriesOf(t2) => to_map(t1) = to_map(t2)
    /\ (obj.kind = "item" /\ obj.attrReqs = 1) =>
          /\ Cardinality(LinesOf("Attribute")) = Cardinality({e.key : e \in obj.attrs})
          /\ {[key |-> cout[i].data, val |-> cout[i].val] : i \in LinesOf("Attribute")}
                = obj.attrs
          /\ \A i \in LinesOf("Attribute"), j \in LinesOf("Attribute") :
                i < j => StrLess(cout[i].data, cout[j].data)
          /\ LinesOf("Attributes") # {} <=> obj.attrs # {}
    /\ ~unlock_flag => "unlock" \notin ops

\* an item of two attributes rendered without --unlock, locked as it was
C13_Witness ==
    /\ ~unlock_flag
    /\ obj.kind = "item"
    /\ obj.returned
    /\ obj.wasLocked
    /\ Cardinality(obj.attrs) = 2
    /\ Cardinality(LinesOf("Attribute")) = 2

\* =================================================================== C14
\* the Error: lines of the current block and of standard error
ErrorLines == {cout[i] : i \in LinesOf("Error")}
                \cup {cerr[i] : i \in {j \in 1 .. Len(cerr) : cerr[j].key = "Error"}}

\* C14: every error a service operation returns is rendered with exactly one
\* non-empty classification message in front of its description: the generic
\* message outside the secret-service domain, the message of its code for
\* protocol, locked, no-such-object and already-exists, and a catch-all
\* message for any other code of the domain.
C14_ErrorClassification ==
    /\ \A err \in GErrors :
          /\ to_error(err).what = err
          /\ err.domain # "SECRET_ERROR"
                => to_error(err).msg = "Couldn't get secret service."
          /\ (err.domain = "SECRET_ERROR" /\ err.code = "PROTOCOL")
                => to_error(err).msg = "Received invalid data from secret service."
          /\ (err.domain = "SECRET_ERROR" /\ err.code = "IS_LOCKED")
                => to_error(err).msg = "Secret item or collection is locked."
          /\ (err.domain = "SECRET_ERROR" /\ err.code = "NO_SUCH_OBJECT")
                => to_error(err).msg = "Secret item or collection not found."
          /\ (err.domain = "SECRET_ERROR" /\ err.code = "ALREADY_EXISTS")
                => to_error(err).msg = "Secret item or collection already exists."
    /\ \A l \in ErrorLines : l.val # ""

\* =================================================================== C15
\* the nesting level of line i of the block in cout: 0 for the service
\* header, 1 for a collection header, 2 for an item header, 3 for the lines
\* under an item header
Level(i) ==
    CASE cout[i].key = "Service" -> 0
      [] cout[i].key = "Collection" -> 1
      [] cout[i].key = "Item" -> 2
      [] OTHER -> 3

\* the lines the claim speaks of: the headers, and what is under an item header
Nested == {i \in 1 .. Len(cout) :
              /\ cout[i].key # ""
              /\ cout[i].key \in {"Service", "Collection", "Item"} \/ cout[1].key = "Item"}

\* C15 as stated: one and the same number of spaces at each step service ->
\* collection -> item -> item sub-fields.
C15_OneFixedUnit ==
    \E unit \in 1 .. 2 * CollectionIndent :
        \A i \in Nested : cout[i].indent = unit * Level(i)

\* C15, amended: the collection header is 4 spaces deeper than the service
\* header and the item header 4 deeper than the collection header; under an
\* item header the field lines are 2 deeper than it, the secret's Type: and
\* Value: lines 4 deeper and the attribute entries 6 deeper; no line under an
\* item header is as shallow as a header.
C15_Indentation ==
    \A i \in Nested :
        /\ cout[i].key = "Service" => cout[i].indent = 0
        /\ cout[i].key = "Collection" => cout[i].indent = 4
        /\ cout[i].key = "Item" => cout[i].indent = 8
        /\ Level(i) = 3 =>
              /\ cout[i].indent > 8
              /\ cout[i].indent =
                    8 + (CASE cout[i].key \in {"Type", "Value"} -> 4
                           [] cout[i].key = "Attribute" -> 6
                           [] OTHER -> 2)

\* an item block with attribute entries and a secret shown in hexadecimal
C15_Witness ==
    /\ obj.kind = "item"
    /\ obj.returned
    /\ cout[1].key = "Item"
    /\ LinesOf("Attribute") # {}
    /\ LinesOf("Secret") # {}
    /\ \E i \in LinesOf("Value") : cout[i].data # <<>>

\* =================================================================== C16
\* <<c, i>> comes before <<d, j>> in the traversal
IdBefore(a, b) == a[1] < b[1] \/ (a[1] = b[1] /\ a[2] < b[2])

\* C16: whatever the outcomes of the calls, an object is rendered once, its
\* rendering holds at most one unlock request and, for an item, at most one
\* secret load, and every unlock request names the object being rendered and
\* nothing else.
C16_OneRequestPerObject ==
    /\ [](/\ obj.unlockReqs <= 1
          /\ Len(obj.unlockLists) = obj.unlockReqs
          /\ \A k \in 1 .. Len(obj.unlockLists) : obj.unlockLists[k] = <<obj.id>>
          /\ obj.loadReqs <= 1
          /\ obj.kind # "item" => obj.loadReqs = 0)
    /\ [][obj' # obj => IdBefore(obj.id, obj'.id)]_vars

\* an item whose unlock reported no error and left it locked, and whose secret
\* load then failed
C16_Witness ==
    /\ obj.kind = "item"
    /\ obj.returned
    /\ obj.unlockLists = <<(<<obj.id>>)>>
    /\ obj.unlockErr = NoError
    /\ obj.loadReqs = 1
    /\ obj.loadErr # NoError

\* =================================================================== C17
\* the wrappers that are alive and point to object o
Owners(o) == {i \in Wrappers : wrappers[i].live /\ wrappers[i].ptr = o}

\* C17: after any sequence of take, borrow, copy and move construction, copy
\* and move assignment (of a wrapper to itself too) and destruction, the
\* reference count of every object is the number of wrappers alive that point
\* to it plus the references held outside, a moved-from wrapper is empty,
\* and no object was referenced or released after its count reached zero.
C17_WrapperOwnsOneReference ==
    /\ \A o \in Objs : ref_count[o] = Cardinality(Owners(o)) + held[o]
    /\ \A i \in Wrappers : wrappers[i].moved => wrappers[i].ptr = 0
    /\ misused = {}

====
